---- MODULE Spec2Model ----
(***************************************************************************)
(* LINQArray<T> (src/src/linq.ts): a subclass of the built-in Array with   *)
(* LINQ-style query methods, and the free function AsLinq.                 *)
(*                                                                         *)
(* An array is a sequence of slots.  A slot is a value or Hole (an index   *)
(* below length that has no property, as left by the Array(len)            *)
(* constructor).  Values are <<tag, n>> pairs: numbers, strings, undefined *)
(* and booleans.  A string is named by a code: the decimal string of the   *)
(* integer n has code n, the other strings have the codes given below,     *)
(* which follow their order by code units.                                 *)
(***************************************************************************)
EXTENDS Integers, Sequences, FiniteSets

\* Longest receiver the model builds.
MaxLen == 3
\* Longest plain array passed to AsLinq or AddRange.
MaxItems == 2

Num(n) == <<"num", n>>
Str(c) == <<"str", c>>
Bool(b) == <<"bool", IF b THEN 1 ELSE 0>>
Undef == <<"undef", 0>>
Hole == <<"hole", 0>>

StrConstructor == Str(100)  \* "constructor"
StrNumber == Str(101)       \* "number"
StrString == Str(102)       \* "string"
StrUndefined == Str(103)    \* "undefined"
\* The strings that are not the decimal string of an integer.
Names == {StrConstructor, StrNumber, StrString, StrUndefined}

IsNum(v) == v[1] = "num"
IsStr(v) == v[1] = "str"

\* The element values T the model puts in arrays.
Elems == {Num(1), Num(2), StrConstructor, Undef}

Min(a, b) == IF a < b THEN a ELSE b
Max(a, b) == IF a > b THEN a ELSE b

(***************************************************************************)
(* Caller-supplied functions.  A predicate is the set of values it holds   *)
(* of, or is omitted.  A key selector maps every element to a string or a  *)
(* number.                                                                 *)
(***************************************************************************)
NoPred == [given |-> FALSE, holds |-> {}]
Pred(s) == [given |-> TRUE, holds |-> s]
Preds == {NoPred, Pred({}), Pred({Undef}), Pred({Num(2), StrConstructor}), Pred(Elems)}

\* "self": x => x ?? 1
\* "rank": x => typeof x === "number" ? x : 1
\* "kind": x => typeof x
Selectors == {"self", "rank", "kind"}
\* The projections Select is called with.
Projections == {"self", "rank"}

KeyOf(sel, x) ==
  IF sel = "self" THEN (IF x = Undef THEN Num(1) ELSE x)
  ELSE IF sel = "rank" THEN (IF IsNum(x) THEN x ELSE Num(1))
  ELSE (IF IsNum(x) THEN StrNumber ELSE IF IsStr(x) THEN StrString ELSE StrUndefined)

\* Projections to arrays, for SelectMany: x => [], x => [x], x => [x, x]
Projectors == {"none", "one", "two"}
Project(prj, x) ==
  IF prj = "none" THEN << >> ELSE IF prj = "one" THEN <<x>> ELSE <<x, x>>

(***************************************************************************)
(* The host's Array primitives the methods delegate to.                    *)
(***************************************************************************)
\* this[i], 1-based here: a hole reads as undefined.
Read(a, i) == IF a[i] = Hole THEN Undef ELSE a[i]

\* [...a]: the array iterator visits every index below length.
Spread(a) == [i \in 1..Len(a) |-> Read(a, i)]

\* Array(...args) as reached by `new LINQArray<T>(...arr)`: a single numeric
\* argument is a length, anything else is the list of elements.
ArrayConstruct(items) ==
  IF Len(items) = 1 /\ IsNum(items[1])
    THEN (IF items[1][2] >= 0
            THEN [status |-> "ok", seq |-> [i \in 1..items[1][2] |-> Hole]]
            ELSE [status |-> "RangeError", seq |-> << >>])
    ELSE [status |-> "ok", seq |-> items]

\* a.slice(start, end): holes are copied as holes.
slice(a, start, end) ==
  LET len == Len(a)
      k == IF start < 0 THEN Max(len + start, 0) ELSE Min(start, len)
      fin == IF end < 0 THEN Max(len + end, 0) ELSE Min(end, len)
      count == Max(fin - k, 0)
  IN [i \in 1..count |-> a[k + i]]

\* a.filter(p): holes are skipped.
filter(a, p) == SelectSeq(a, LAMBDA x : x # Hole /\ x \in p.holds)

\* a.map(f) with f a key selector: holes stay holes.
map(a, sel) == [i \in 1..Len(a) |-> IF a[i] = Hole THEN Hole ELSE KeyOf(sel, a[i])]

\* a.find(p): visits every index, holes as undefined.
RECURSIVE findFrom(_, _, _)
findFrom(a, p, i) ==
  IF i > Len(a) THEN Undef
  ELSE IF Read(a, i) \in p.holds THEN Read(a, i)
  ELSE findFrom(a, p, i + 1)
find(a, p) == findFrom(a, p, 1)

\* a.some(p): holes are skipped.
some(a, p) == \E i \in 1..Len(a) : a[i] # Hole /\ a[i] \in p.holds

\* a.flatMap(f): holes are skipped, one level is flattened.
RECURSIVE flatMapFrom(_, _, _)
flatMapFrom(a, prj, i) ==
  IF i > Len(a) THEN << >>
  ELSE (IF a[i] = Hole THEN << >> ELSE Project(prj, a[i])) \o flatMapFrom(a, prj, i + 1)
flatMap(a, prj) == flatMapFrom(a, prj, 1)

\* [...new Set(a)]: first occurrences, in order, under SameValueZero.
RECURSIVE SetValues(_, _)
SetValues(vals, acc) ==
  IF vals = << >> THEN acc
  ELSE SetValues(Tail(vals),
                 IF \E j \in 1..Len(acc) : acc[j] = Head(vals)
                   THEN acc ELSE Append(acc, Head(vals)))

\* The > of the two comparators, on keys: numbers compare as numbers, strings
\* by code units; a name string against a number converts to NaN.
Gt(k1, k2) ==
  IF IsNum(k1) /\ IsNum(k2) THEN k1[2] > k2[2]
  ELSE IF IsStr(k1) /\ IsStr(k2) THEN k1[2] > k2[2]
  ELSE FALSE

OrderByCompare(sel, a, b) == IF Gt(KeyOf(sel, a), KeyOf(sel, b)) THEN 1 ELSE -1
OrderByDescendingCompare(sel, a, b) == IF Gt(KeyOf(sel, a), KeyOf(sel, b)) THEN -1 ELSE 1
Compare(sel, desc, a, b) ==
  IF desc THEN OrderByDescendingCompare(sel, a, b) ELSE OrderByCompare(sel, a, b)

\* The arrangements of the slots of a.
Arrangements(a) ==
  {p \in [1..Len(a) -> {a[i] : i \in 1..Len(a)}] :
     \A i \in 1..Len(a) :
       Cardinality({j \in 1..Len(a) : p[j] = a[i]}) = Cardinality({j \in 1..Len(a) : a[j] = a[i]})}

\* a.sort(comparefn), in place: the defined values are sorted with comparefn,
\* then come the undefined values, then the holes.  Neither comparator ever
\* returns 0, so where it leaves two values is up to the engine's algorithm:
\* the outcomes are the arrangements in which comparefn puts no value after
\* its right neighbour.
sort(a, sel, desc) ==
  LET defined == SelectSeq(a, LAMBDA x : x # Hole /\ x # Undef)
      undefs == SelectSeq(a, LAMBDA x : x = Undef)
      holes == SelectSeq(a, LAMBDA x : x = Hole)
  IN {p \o undefs \o holes :
        p \in {q \in Arrangements(defined) :
                 \A i \in 1..(Len(q) - 1) : Compare(sel, desc, q[i], q[i + 1]) < 0}}

(***************************************************************************)
(* An ordinary object used as a mapping: its own properties, as            *)
(* <<key, array>> entries in creation order.                               *)
(***************************************************************************)
\* ToPropertyKey: a number key becomes its decimal string.
ToPropertyKey(k) == IF IsNum(k) THEN Str(k[2]) ELSE k

\* The property names {} inherits from Object.prototype.
ObjectPrototypeKeys == {StrConstructor}

HasOwn(entries, key) == \E j \in 1..Len(entries) : entries[j][1] = key
\* key in obj
HasProperty(entries, key) == HasOwn(entries, key) \/ key \in ObjectPrototypeKeys
GetOwn(entries, key) == (CHOOSE j \in 1..Len(entries) : entries[j][1] = key)

IsArrayIndex(key) == IsStr(key) /\ key \notin Names /\ key[2] >= 0

RECURSIVE Ascending(_)
Ascending(codes) ==
  IF codes = {} THEN << >>
  ELSE LET m == CHOOSE c \in codes : \A d \in codes : c <= d
       IN <<Str(m)>> \o Ascending(codes \ {m})

\* The order in which the keys of an object are enumerated: array indices in
\* ascending numeric order, then the other strings in creation order.
OwnKeys(entries) ==
  LET keys == [j \in 1..Len(entries) |-> entries[j][1]]
  IN Ascending({keys[j][2] : j \in {i \in 1..Len(keys) : IsArrayIndex(keys[i])}})
       \o SelectSeq(keys, LAMBDA k : ~IsArrayIndex(k))

(***************************************************************************)
(* What a call returns: `this` is the receiver after the call, `ref` says  *)
(* which object is returned ("r" the receiver itself, "o" a new array with *)
(* contents seq, "m" a new mapping with entries map, "none" a scalar val   *)
(* or nothing).                                                            *)
(***************************************************************************)
RetSeq(this, s) == [this |-> this, status |-> "ok", ref |-> "o", seq |-> s, val |-> Undef, map |-> << >>]
RetThis(this) == [this |-> this, status |-> "ok", ref |-> "r", seq |-> << >>, val |-> Undef, map |-> << >>]
RetVal(this, v) == [this |-> this, status |-> "ok", ref |-> "none", seq |-> << >>, val |-> v, map |-> << >>]
RetMap(this, m) == [this |-> this, status |-> "ok", ref |-> "m", seq |-> << >>, val |-> Undef, map |-> m]
RetThrow(this, e) == [this |-> this, status |-> e, ref |-> "none", seq |-> << >>, val |-> Undef, map |-> << >>]

(***************************************************************************)
(* The methods of LINQArray and AsLinq, as functions of the receiver.      *)
(***************************************************************************)
Add(this, item) == RetVal(Append(this, item), Undef)

AddRange(this, arr) == RetVal(this \o Spread(arr), Undef)

\* The reduce callback of GroupBy, folded over the present elements.
RECURSIVE GroupByFrom(_, _, _, _)
GroupByFrom(this, sel, i, groups) ==
  IF i > Len(this) THEN [status |-> "ok", entries |-> groups]
  ELSE IF this[i] = Hole THEN GroupByFrom(this, sel, i + 1, groups)
  ELSE LET item == this[i]
           key == ToPropertyKey(KeyOf(sel, item))
       IN IF HasProperty(groups, key)
            THEN (IF HasOwn(groups, key)
                    THEN LET j == GetOwn(groups, key)
                         IN GroupByFrom(this, sel, i + 1,
                                        [groups EXCEPT ![j] = <<key, Append(groups[j][2], item)>>])
                    \* an inherited property is no array: push is not a function
                    ELSE [status |-> "TypeError", entries |-> groups])
            ELSE GroupByFrom(this, sel, i + 1, Append(groups, <<key, <<item>> >>))

GroupBy(this, sel) ==
  LET got == GroupByFrom(this, sel, 1, << >>)
  IN IF got.status = "ok" THEN RetMap(this, got.entries) ELSE RetThrow(this, got.status)

Select(this, sel) == RetSeq(this, map(this, sel))

Where(this, p) == RetSeq(this, filter(this, p))

FirstOrDefault(this, p) ==
  RetVal(this, IF p.given THEN find(this, p)
               ELSE IF Len(this) # 0 THEN Read(this, 1) ELSE Undef)

First(this, p) ==
  LET item == FirstOrDefault(this, p).val
  IN IF item = Undef THEN RetThrow(this, "InvalidOperationException")
     ELSE RetVal(this, item)

SelectMany(this, prj) == RetSeq(this, flatMap(this, prj))

\* `this` of AsLinq's result is the argument array after the call.
AsLinq(arr) ==
  LET made == ArrayConstruct(Spread(arr))
  IN IF made.status = "ok" THEN RetSeq(arr, made.seq) ELSE RetThrow(arr, made.status)

Distinct(this) ==
  LET made == AsLinq(SetValues(Spread(this), << >>))
  IN IF made.status = "ok" THEN RetSeq(this, made.seq) ELSE RetThrow(this, made.status)

\* new Map(pairs): a key keeps the position of its first pair and the value
\* of its last one.
RECURSIVE MapOfPairs(_, _, _, _)
MapOfPairs(this, sel, i, m) ==
  IF i > Len(this) THEN m
  ELSE LET k == KeyOf(sel, this[i])
       IN IF \E j \in 1..Len(m) : m[j][1] = k
            THEN LET j == CHOOSE j \in 1..Len(m) : m[j][1] = k
                 IN MapOfPairs(this, sel, i + 1, [m EXCEPT ![j] = <<k, this[i]>>])
            ELSE MapOfPairs(this, sel, i + 1, Append(m, <<k, this[i]>>))

DistinctBy(this, sel) ==
  \* this.map leaves the holes in the array of pairs, and the Map constructor
  \* throws on an entry that is no object
  IF \E i \in 1..Len(this) : this[i] = Hole THEN RetThrow(this, "TypeError")
  ELSE LET m == MapOfPairs(this, sel, 1, << >>)
           made == AsLinq([j \in 1..Len(m) |-> m[j][2]])
       IN IF made.status = "ok" THEN RetSeq(this, made.seq) ELSE RetThrow(this, made.status)

\* The returns OrderBy can end in, one per outcome of the sort.
OrderBy(this, sel) == {RetThis(sorted) : sorted \in sort(this, sel, FALSE)}

OrderByDescending(this, sel) == {RetThis(sorted) : sorted \in sort(this, sel, TRUE)}

Any(this, p) == RetVal(this, Bool(IF p.given THEN some(this, p) ELSE Len(this) > 0))

Take(this, i) == RetSeq(this, slice(this, 0, i))

\* Skip that starts one element too far.
Skip_OffByOne(this, i) == RetSeq(this, slice(this, i + 1, Len(this)))

Skip(this, i) == RetSeq(this, slice(this, i, Len(this)))

Count(this) == RetVal(this, Num(Len(this)))

\* ToArray with `return this` in place of the copy.
ToArray_ReturnsThis(this) == RetThis(this)

ToArray(this) == RetSeq(this, Spread(this))

(***************************************************************************)
(* The program: one receiver, and a caller that calls its methods.  The    *)
(* caller keeps the array or mapping a query returned until its next call; *)
(* it may push onto it, and it may go on with it as the next receiver (a   *)
(* chained call).  Across a mutator call it keeps it just long enough to   *)
(* see whether the call changed it.                                        *)
(***************************************************************************)
VARIABLES
  recv,    \* the receiver's slots
  ocell,   \* the slots of the new array the caller holds, if any
  omap,    \* the entries of the new mapping the caller holds, if any
  held,    \* which call returned what the caller holds, and which object it is
  last,    \* the last step taken
  args,    \* its arguments
  out,     \* how it ended: status, which object it returned, scalar value,
           \* whether the caller held something over it and found it intact
  pre,     \* the receiver before it
  src      \* the plain array passed to AsLinq, after the call

vars == <<recv, ocell, omap, held, last, args, out, pre, src>>

Mutators == {"Add", "AddRange", "OrderBy", "OrderByDescending"}
Queries == {"Select", "Where", "SelectMany", "GroupBy", "Distinct", "DistinctBy",
            "First", "FirstOrDefault", "Any", "Take", "Skip", "Count", "ToArray"}

NoArgs == [pred |-> NoPred, sel |-> "", prj |-> "", n |-> 0, item |-> Undef, items |-> << >>]
NoOut == [status |-> "ok", ref |-> "none", val |-> Undef, watched |-> FALSE, intact |-> TRUE]
NoHeld == [op |-> "", ref |-> "none"]

Items == UNION {[1..n -> Elems] : n \in 0..MaxItems}
Counts == -1..(MaxLen + 1)

Init ==
  /\ recv = << >>
  /\ ocell = << >>
  /\ omap = << >>
  /\ held = NoHeld
  /\ last = "new"
  /\ args = NoArgs
  /\ out = NoOut
  /\ pre = << >>
  /\ src = << >>

\* A method call on the receiver.  What the caller holds is the receiver
\* itself or an object no method of the receiver reaches.
Call(op, a, ret) ==
  /\ Len(ret.this) <= MaxLen
  /\ last' = op
  /\ args' = a
  /\ pre' = recv
  /\ recv' = ret.this
  /\ src' = << >>
  /\ IF op \in Mutators
       THEN /\ out' = [status |-> ret.status, ref |-> ret.ref, val |-> ret.val,
                       watched |-> held.ref # "none",
                       intact |-> (held.ref = "r" => ret.this = recv)]
            /\ held' = NoHeld
            /\ ocell' = << >>
            /\ omap' = << >>
       ELSE /\ out' = [status |-> ret.status, ref |-> ret.ref, val |-> ret.val,
                       watched |-> FALSE, intact |-> TRUE]
            /\ held' = [op |-> op, ref |-> ret.ref]
            /\ ocell' = ret.seq
            /\ omap' = ret.map

CallAdd(item) == Call("Add", [NoArgs EXCEPT !.item = item], Add(recv, item))
CallAddRange(arr) == Call("AddRange", [NoArgs EXCEPT !.items = arr], AddRange(recv, arr))
CallGroupBy(sel) == Call("GroupBy", [NoArgs EXCEPT !.sel = sel], GroupBy(recv, sel))
CallSelect(sel) == Call("Select", [NoArgs EXCEPT !.sel = sel], Select(recv, sel))
CallWhere(p) == p.given /\ Call("Where", [NoArgs EXCEPT !.pred = p], Where(recv, p))
CallFirst(p) == Call("First", [NoArgs EXCEPT !.pred = p], First(recv, p))
CallFirstOrDefault(p) ==
  Call("FirstOrDefault", [NoArgs EXCEPT !.pred = p], FirstOrDefault(recv, p))
CallSelectMany(prj) == Call("SelectMany", [NoArgs EXCEPT !.prj = prj], SelectMany(recv, prj))
CallDistinct == Call("Distinct", NoArgs, Distinct(recv))
CallDistinctBy(sel) == Call("DistinctBy", [NoArgs EXCEPT !.sel = sel], DistinctBy(recv, sel))
CallOrderBy(sel) ==
  \E ret \in OrderBy(recv, sel) : Call("OrderBy", [NoArgs EXCEPT !.sel = sel], ret)
CallOrderByDescending(sel) ==
  \E ret \in OrderByDescending(recv, sel) :
    Call("OrderByDescending", [NoArgs EXCEPT !.sel = sel], ret)
CallAny(p) == Call("Any", [NoArgs EXCEPT !.pred = p], Any(recv, p))
CallTake(n) == Call("Take", [NoArgs EXCEPT !.n = n], Take(recv, n))
CallSkip(n) == Call("Skip", [NoArgs EXCEPT !.n = n], Skip(recv, n))
CallCount == Call("Count", NoArgs, Count(recv))
CallToArray == Call("ToArray", NoArgs, ToArray(recv))

\* AsLinq(arr) on a plain array of the caller's; the caller goes on with the
\* LINQArray it returns, as in AsLinq(arr).OrderBy(...).
CallAsLinq(arr) ==
  LET ret == AsLinq(arr)
  IN /\ last' = "AsLinq"
     /\ args' = [NoArgs EXCEPT !.items = arr]
     /\ out' = [status |-> ret.status, ref |-> ret.ref, val |-> ret.val,
                watched |-> FALSE, intact |-> TRUE]
     /\ src' = ret.this
     /\ recv' = IF ret.status = "ok" THEN ret.seq ELSE recv
     /\ pre' = recv'
     /\ held' = NoHeld
     /\ ocell' = << >>
     /\ omap' = << >>

\* The caller pushes an item onto the array it holds, or onto the first
\* group of the mapping it holds, and lets go of it.
MutateResult(item) ==
  /\ held.ref # "none"
  /\ held.ref = "m" => omap # << >>
  /\ held.ref = "r" => Len(recv) < MaxLen
  /\ recv' = IF held.ref = "r" THEN Append(recv, item) ELSE recv
  /\ last' = "MutateResult"
  /\ args' = [NoArgs EXCEPT !.item = item]
  /\ pre' = recv
  /\ out' = NoOut
  /\ src' = << >>
  /\ held' = NoHeld
  /\ ocell' = << >>
  /\ omap' = << >>

\* The next call is made on the array the last query returned, as in
\* a.Where(...).Select(...).
Chain ==
  /\ held.ref = "o"
  /\ Len(ocell) <= MaxLen
  /\ recv' = ocell
  /\ pre' = ocell
  /\ ocell' = << >>
  /\ omap' = << >>
  /\ held' = NoHeld
  /\ last' = "Chain"
  /\ args' = NoArgs
  /\ out' = NoOut
  /\ src' = << >>

Next ==
  \/ \E item \in Elems : CallAdd(item)
  \/ \E arr \in Items : CallAddRange(arr)
  \/ \E sel \in Selectors : CallGroupBy(sel)
  \/ \E sel \in Projections : CallSelect(sel)
  \/ \E p \in Preds : CallWhere(p)
  \/ \E p \in Preds : CallFirst(p)
  \/ \E p \in Preds : CallFirstOrDefault(p)
  \/ \E prj \in Projectors : CallSelectMany(prj)
  \/ CallDistinct
  \/ \E sel \in Selectors : CallDistinctBy(sel)
  \/ \E sel \in Selectors : CallOrderBy(sel)
  \/ \E sel \in Selectors : CallOrderByDescending(sel)
  \/ \E p \in Preds : CallAny(p)
  \/ \E n \in Counts : CallTake(n)
  \/ \E n \in Counts : CallSkip(n)
  \/ CallCount
  \/ CallToArray
  \/ \E arr \in Items : CallAsLinq(arr)
  \/ \E item \in {StrConstructor} : MutateResult(item)
  \/ Chain

Spec == Init /\ [][Next]_vars

(***************************************************************************)
(* Properties.                                                             *)
(***************************************************************************)
NoHoles(a) == \A i \in 1..Len(a) : a[i] # Hole
Present(a) == SelectSeq(a, LAMBDA x : x # Hole)
Occurrences(a, v) == {i \in 1..Len(a) : a[i] = v}
Lowest(ix) == CHOOSE i \in ix : \A j \in ix : i <= j
Highest(ix) == CHOOSE i \in ix : \A j \in ix : i >= j
IsPermutation(a, b) ==
  /\ Len(a) = Len(b)
  /\ \A i \in 1..Len(a) : Cardinality(Occurrences(a, a[i])) = Cardinality(Occurrences(b, a[i]))
ok == out.status = "ok"

\* C1: First(S, P) throws exactly when no element of S satisfies P (when S is
\* empty, if P is omitted), and otherwise returns the first element of S that
\* satisfies P (the first element, if P is omitted).  Stated for receivers
\* without holes.
C1_FirstThrowsIffNoMatch ==
  (last = "First" /\ NoHoles(pre)) =>
    LET P == args.pred
        matches == {i \in 1..Len(pre) : ~P.given \/ pre[i] \in P.holds}
    IN /\ (out.status = "InvalidOperationException") <=> (matches = {})
       /\ matches # {} => (ok /\ out.val = pre[Lowest(matches)])

\* C2: AsLinq(items) returns a new sequence with the length and the elements
\* of items, in order, and leaves items as it was.
C2_AsLinqCopies ==
  last = "AsLinq" =>
    /\ ok
    /\ out.ref = "o"
    /\ Len(recv) = Len(args.items)
    /\ recv = args.items
    /\ src = args.items

\* C3: Take(S, n) is the prefix of S of length min(n, length(S)) when n > 0
\* and is empty when n <= 0.
C3_TakeIsPrefix ==
  last = "Take" =>
    /\ ok
    /\ held.ref = "o"
    /\ ocell = IF args.n > 0 THEN SubSeq(pre, 1, Min(args.n, Len(pre))) ELSE << >>

\* C4: Distinct(S) has no two equal elements, holds exactly the values of S,
\* in the order of their first occurrence in S, and equals S when S has no
\* duplicates.  S is the receiver as its iteration reads it.
C4_DistinctFirstOccurrences ==
  last = "Distinct" =>
    LET S == Spread(pre)
        D == ocell
    IN /\ ok
       /\ held.ref = "o"
       /\ \A i, j \in 1..Len(D) : D[i] = D[j] => i = j
       /\ \A i \in 1..Len(D) : Occurrences(S, D[i]) # {}
       /\ \A i \in 1..Len(S) : Occurrences(D, S[i]) # {}
       /\ \A i, j \in 1..Len(D) :
            (i < j /\ Occurrences(S, D[i]) # {} /\ Occurrences(S, D[j]) # {})
              => Lowest(Occurrences(S, D[i])) < Lowest(Occurrences(S, D[j]))
       /\ (\A i, j \in 1..Len(S) : S[i] = S[j] => i = j) => D = S

\* C5: DistinctBy(S, k) has exactly one element per key occurring in S, that
\* element is the last element of S with the key, and the elements are in the
\* order of the first occurrence of their keys in S.  Stated for receivers
\* without holes.
C5_DistinctByLastPerKey ==
  (last = "DistinctBy" /\ NoHoles(pre)) =>
    LET S == pre
        D == ocell
        keyAt(a, i) == KeyOf(args.sel, a[i])
        withKey(key) == {i \in 1..Len(S) : keyAt(S, i) = key}
    IN /\ ok
       /\ held.ref = "o"
       /\ {keyAt(D, i) : i \in 1..Len(D)} = {keyAt(S, i) : i \in 1..Len(S)}
       /\ \A i, j \in 1..Len(D) : keyAt(D, i) = keyAt(D, j) => i = j
       /\ \A i \in 1..Len(D) :
            withKey(keyAt(D, i)) # {} => D[i] = S[Highest(withKey(keyAt(D, i)))]
       /\ \A i, j \in 1..Len(D) :
            (i < j /\ withKey(keyAt(D, i)) # {} /\ withKey(keyAt(D, j)) # {})
              => Lowest(withKey(keyAt(D, i))) < Lowest(withKey(keyAt(D, j)))

\* The property key under which GroupBy files the i-th present element.
GroupKeyAt(a, i) == ToPropertyKey(KeyOf(args.sel, a[i]))

\* C6: GroupBy(S, k) is a mapping whose keys are exactly the keys of the
\* elements of S, and that maps each key to the elements of S with that key,
\* in their order in S.  The elements of S are the present ones, a key is
\* identified with its property name.
C6_GroupByPartitions ==
  last = "GroupBy" =>
    LET S == Present(pre)
    IN /\ ok
       /\ held.ref = "m"
       /\ {omap[j][1] : j \in 1..Len(omap)} = {GroupKeyAt(S, i) : i \in 1..Len(S)}
       /\ \A j, l \in 1..Len(omap) : omap[j][1] = omap[l][1] => j = l
       /\ \A j \in 1..Len(omap) :
            omap[j][2] = SelectSeq(S, LAMBDA x : ToPropertyKey(KeyOf(args.sel, x)) = omap[j][1])

\* C7: the keys of the mapping GroupBy(S, k) returns are enumerated in the
\* order in which each key first occurs in S.
C7_GroupByKeysInFirstOccurrenceOrder ==
  (last = "GroupBy" /\ ok) =>
    LET S == Present(pre)
        keys == OwnKeys(omap)
        firstAt(key) == Lowest({i \in 1..Len(S) : GroupKeyAt(S, i) = key})
    IN \A i, j \in 1..Len(keys) : i < j => firstAt(keys[i]) < firstAt(keys[j])

\* The selectors whose keys are totally ordered by >.
OrderedSelectors == {"rank", "kind"}

\* C8: OrderBy(S, k) sorts the receiver in place and returns the receiver:
\* afterwards it is a permutation of what it was and non-decreasing in k;
\* OrderByDescending likewise, non-increasing in k.
C8_OrderBySortsInPlace ==
  (last \in {"OrderBy", "OrderByDescending"} /\ args.sel \in OrderedSelectors) =>
    LET R == Spread(recv)
        key(i) == KeyOf(args.sel, R[i])
    IN /\ ok
       /\ out.ref = "r"
       /\ IsPermutation(recv, pre)
       /\ \A i \in 1..(Len(R) - 1) :
            IF last = "OrderBy" THEN ~Gt(key(i), key(i + 1)) ELSE ~Gt(key(i + 1), key(i))

\* C9: a query (Select, Where, SelectMany, GroupBy, Distinct, DistinctBy,
\* First, FirstOrDefault, Any, Take, Skip, Count, ToArray) leaves the receiver
\* as it was and returns no reference to the receiver: a later Add, AddRange
\* or sort of the receiver leaves what the query returned intact, and a push
\* onto what it returned leaves the receiver as it was.
C9_QueriesLeaveReceiverAndResultApart ==
  /\ last \in Queries => (recv = pre /\ out.ref # "r")
  /\ (last \in Mutators /\ out.watched) => out.intact
  /\ last = "MutateResult" => recv = pre

\* A query's result was held while the receiver was changed by a mutator.
C9_Witness ==
  /\ last \in Mutators
  /\ out.watched
  /\ out.intact
  /\ recv # pre

\* C10: every operation but First completes normally for every receiver and
\* argument, and FirstOrDefault returns undefined when no element matches.
\* Stated for receivers without holes.
C10_OnlyFirstThrows ==
  (last \in (Mutators \cup Queries) \ {"First"} /\ NoHoles(pre)) =>
    /\ ok
    /\ (last = "FirstOrDefault"
          /\ \A i \in 1..Len(pre) : args.pred.given /\ pre[i] \notin args.pred.holds)
         => out.val = Undef

\* C11: for 0 <= n <= length(S), Take(S, n) followed by Skip(S, n) partitions
\* S: Take(S, n) ++ Skip(S, n) = S, with length(Take(S, n)) = n and
\* length(Skip(S, n)) = length(S) - n; for n > length(S), Skip(S, n) is empty
\* and Take(S, n) = S.  Of the two calls one is the call just made, the other
\* is made on the same receiver with the same n.
C11_TakeThenSkipPartitions ==
  last \in {"Take", "Skip"} =>
    LET S == pre
        n == args.n
        taken == IF last = "Take" THEN ocell ELSE Take(S, n).seq
        skipped == IF last = "Skip" THEN ocell ELSE Skip(S, n).seq
    IN /\ ok
       /\ held.ref = "o"
       /\ (0 <= n /\ n <= Len(S)) =>
            /\ taken \o skipped = S
            /\ Len(taken) = n
            /\ Len(skipped) = Len(S) - n
       /\ n > Len(S) => (skipped = << >> /\ taken = S)

\* Skip has cut a receiver strictly inside: both parts are non-empty.
C11_Witness ==
  /\ last = "Skip"
  /\ 0 < args.n
  /\ args.n < Len(pre)
  /\ ocell # << >>
  /\ Take(pre, args.n).seq \o ocell = pre

====
